---- MODULE Spec2Model ----
(***************************************************************************)
(* bigmon_policy: reconciliation of one named policy against the policy    *)
(* list of a Big Monitoring Fabric controller.                             *)
(*                                                                         *)
(* One run of policy(module) is a straight line of code interrupted by at  *)
(* most two HTTP exchanges.  The model cuts the function at the points     *)
(* where it waits for the controller: pc names the source line at which    *)
(* the run is standing.                                                    *)
(*   "L127"  policy(module) entered, nothing executed yet                  *)
(*   "L150"  rest.get('policy?config=true') sent, reply outstanding        *)
(*   "L178"  rest.put('policy[name=...]') sent, reply outstanding          *)
(*   "L185"  rest.delete('policy[name=...]') sent, reply outstanding       *)
(*   "done"  exit_json / fail_json was called (or the function returned)   *)
(***************************************************************************)
EXTENDS Integers, Sequences, FiniteSets, TLC

VARIABLES
    params,          \* module.params
    environ,         \* os.environ.get('BIGSWITCH_ACCESS_TOKEN'), or Unset
    store,           \* the controller's policy table (a set of policy records)
    pc,              \* position of the run in policy(module)
    access_token,    \* local access_token (line 128)
    fetched,         \* response.json of the listing get once it returned 200
    config_present,  \* local config_present (lines 154, 165)
    calls,           \* HTTP calls of this run, in order, with their status
    result,          \* what the run reported through exit_json / fail_json
    store0,          \* the controller's policy table when this run started
    prev             \* the finished earlier runs

vars == <<params, environ, store, pc, access_token, fetched, config_present,
          calls, result, store0, prev>>

----------------------------------------------------------------------------
(* Bounds and value domains *)

\* number of consecutive runs of policy(module) that are followed
MaxRuns == 2

None == "None"
Unset == "Unset"

\* keys of a policy record as the controller's JSON spells them
Keys == {"name", "action", "policy-description", "priority", "duration",
         "start-time", "delivery-packet-count"}

\* the policy of the module's EXAMPLES / RETURN documentation
Base == [k \in Keys |->
           CASE k = "name" -> "policy1"
             [] k = "action" -> "drop"
             [] k = "policy-description" -> "DC 1 traffic policy"
             [] k = "priority" -> 100
             [] k = "duration" -> 0
             [] k = "start-time" -> "2017-01-13T23:10:41.978584+00:00"
             [] k = "delivery-packet-count" -> 0]

\* a second value for every field
Alt == [k \in Keys |->
           CASE k = "name" -> "policy2"
             [] k = "action" -> "forward"
             [] k = "policy-description" -> ""
             [] k = "priority" -> 200
             [] k = "duration" -> 60
             [] k = "start-time" -> "2017-01-14T08:00:00.000000+00:00"
             [] k = "delivery-packet-count" -> 1000]

\* the policies considered: Base and every policy one field away from it
Policies == {Base} \cup {[Base EXCEPT ![k] = Alt[k]] : k \in Keys}

StartTimes == {Base["start-time"], Alt["start-time"]}

UniqueNames(S) == \A a \in S : \A b \in S : a["name"] = b["name"] => a = b

\* the controller keys its policy table by name
Stores == {S \in SUBSET Policies : UniqueNames(S)}

ParamKeys == {"name", "policy_description", "action", "priority", "duration",
              "start_time", "delivery_packet_count", "state", "access_token"}

States == {"present", "absent"}

Tokens == {None, "param-token"}

EnvTokens == {Unset, "env-token"}

\* module.params for the desired policy d, target state s, token t
MakeParams(d, s, t) ==
    [k \in ParamKeys |->
        CASE k = "name" -> d["name"]
          [] k = "policy_description" -> d["policy-description"]
          [] k = "action" -> d["action"]
          [] k = "priority" -> d["priority"]
          [] k = "duration" -> d["duration"]
          [] k = "start_time" -> d["start-time"]
          [] k = "delivery_packet_count" -> d["delivery-packet-count"]
          [] k = "state" -> s
          [] k = "access_token" -> t]

----------------------------------------------------------------------------
(* Collaborators: AnsibleModule.exit_json / fail_json and the REST client *)

NoList == {}

JsonList(S) == [kind |-> "list", items |-> S, description |-> ""]
JsonNone == [kind |-> "none", items |-> NoList, description |-> ""]
JsonDict(d) == [kind |-> "dict", items |-> NoList, description |-> d]

NotFetched == JsonNone

NoMsg == [text |-> "", name |-> "", description |-> ""]

Running == [rc |-> "none", changed |-> FALSE, msg |-> NoMsg]

\* module.exit_json(changed=c): reports and ends the process
ExitJson(c) == [rc |-> "exit_json", changed |-> c, msg |-> NoMsg]

\* module.fail_json(msg=...): reports the failure and ends the process
FailJson(text, name, description) ==
    [rc |-> "fail_json", changed |-> FALSE,
     msg |-> [text |-> text, name |-> name, description |-> description]]

\* an exception escaping policy(module): main() reports it with fail_json
Raised(what) == FailJson("exception", "", what)

Failed(r) == r.rc = "fail_json"

\* replies the controller can give to the listing get: any status with any
\* body (the policy list, a JSON object, or no JSON at all)
GetReplies(S) ==
    { [status |-> 200, json |-> JsonList(S)],
      [status |-> 200, json |-> JsonNone],
      [status |-> 200, json |-> JsonDict("Accepted")],
      [status |-> 202, json |-> JsonList(S)],
      [status |-> 401, json |-> JsonDict("Unauthorized")],
      [status |-> 500, json |-> JsonNone] }

\* replies the controller can give to a put or a delete
WriteReplies ==
    { [status |-> 204, json |-> JsonNone],
      [status |-> 200, json |-> JsonNone],
      [status |-> 400, json |-> JsonDict("Invalid policy")] }

\* the controller creates or replaces the policy of that name
Upsert(S, data) == {q \in S : q["name"] # data["name"]} \cup {data}

\* the controller removes the policy of that name
Remove(S, name) == {q \in S : q["name"] # name}

\* the controller applies a put exactly when it answers 204
RemotePut(S, data, status) == IF status = 204 THEN Upsert(S, data) ELSE S

\* the controller applies a delete exactly when it answers 204
RemoteDelete(S, name, status) == IF status = 204 THEN Remove(S, name) ELSE S

NoData == [k \in {} |-> ""]

Call(method, key, data, reply) ==
    [method |-> method, key |-> key, data |-> data, status |-> reply.status,
     json |-> reply.json]

Mutating(c) == c.method \in {"put", "delete"}

----------------------------------------------------------------------------
(* policy(module) *)

\* Python truthiness of an optional string
Truthy(x) == x # None /\ x # ""

\* variant: a default instead of the KeyError, os.environ.get(..., '')
LoadTokenDefault(p, env) ==
    IF Truthy(p["access_token"]) THEN p["access_token"]
    ELSE IF env = Unset THEN "" ELSE env

\* line 128: module.params['access_token'] or os.environ['BIGSWITCH_ACCESS_TOKEN']
\* (Unset stands for the KeyError)
LoadToken(p, env) ==
    IF Truthy(p["access_token"]) THEN p["access_token"] ELSE env

\* lines 129-131: e.message exists on Python 2 only; on Python 3 the handler
\* itself raises AttributeError
MissingToken(python) ==
    IF python = 2
    THEN FailJson("Unable to load", "", "BIGSWITCH_ACCESS_TOKEN")
    ELSE Raised("AttributeError")

Chars(s) ==
    CASE s = "present" -> <<"p", "r", "e", "s", "e", "n", "t">>
      [] s = "absent" -> <<"a", "b", "s", "e", "n", "t">>

\* Python's  a in b  on two strings
IsSubstring(a, b) ==
    \E i \in 0..(Len(b) - Len(a)) : SubSeq(b, i + 1, i + Len(a)) = a

\* state in ('present'): the parentheses make no tuple, this is a substring test
StateIn(state, literal) == IsSubstring(Chars(state), Chars(literal))

\* variant: any 2xx status with a body counts as success
GetOkLax(status) == status \in {200, 202}

\* line 151
GetOk(status) == status = 200

\* variant: any 2xx status counts as success
WriteOkLax(status) == status \in {200, 204}

\* lines 179 and 186
WriteOk(status) == status = 204

\* variant: start-time takes part in the comparison
MatchesStartTime(policy, p) ==
    /\ policy["name"] = p["name"]
    /\ policy["duration"] = p["duration"]
    /\ policy["delivery-packet-count"] = p["delivery_packet_count"]
    /\ policy["policy-description"] = p["policy_description"]
    /\ policy["action"] = p["action"]
    /\ policy["priority"] = p["priority"]
    /\ policy["start-time"] = p["start_time"]

\* variant: policies are compared by name only
MatchesName(policy, p) == policy["name"] = p["name"]

\* the condition of the comprehension at lines 157-162
Matches(policy, p) ==
    /\ policy["name"] = p["name"]
    /\ policy["duration"] = p["duration"]
    /\ policy["delivery-packet-count"] = p["delivery_packet_count"]
    /\ policy["policy-description"] = p["policy_description"]
    /\ policy["action"] = p["action"]
    /\ policy["priority"] = p["priority"]

\* lines 156-162
Matching(items, p) == {policy \in items : Matches(policy, p)}

\* lines 154-165
ConfigPresent(items, p) == Matching(items, p) # {}

\* variant: the body carries the default priority, not the requested one
PutDataDefaultPriority(p) ==
    [k \in Keys |->
        CASE k = "name" -> p["name"]
          [] k = "action" -> p["action"]
          [] k = "policy-description" -> p["policy_description"]
          [] k = "priority" -> 100
          [] k = "duration" -> p["duration"]
          [] k = "start-time" -> p["start_time"]
          [] k = "delivery-packet-count" -> p["delivery_packet_count"]]

\* lines 174-176
PutData(p) ==
    [k \in Keys |->
        CASE k = "name" -> p["name"]
          [] k = "action" -> p["action"]
          [] k = "policy-description" -> p["policy_description"]
          [] k = "priority" -> p["priority"]
          [] k = "duration" -> p["duration"]
          [] k = "start-time" -> p["start_time"]
          [] k = "delivery-packet-count" -> p["delivery_packet_count"]]

\* "...: {}".format(response.json['description']) inside fail_json: subscripting
\* a body that is no dict with that key raises instead
DescribeFailure(text, name, json) ==
    IF json.kind = "dict"
    THEN FailJson(text, name, json.description)
    ELSE Raised("TypeError")

\* variant: the early exit of lines 167-168 is missing
DecideAlwaysPut(state, present) ==
    IF StateIn(state, "absent") /\ ~present THEN "unchanged"
    ELSE IF StateIn(state, "present") THEN "put"
    ELSE IF StateIn(state, "absent") THEN "delete"
    ELSE "return"

\* variant: the early exit of lines 170-171 is missing
DecideAlwaysDelete(state, present) ==
    IF StateIn(state, "present") /\ present THEN "unchanged"
    ELSE IF StateIn(state, "present") THEN "put"
    ELSE IF StateIn(state, "absent") THEN "delete"
    ELSE "return"

\* lines 167-185: what the run does once config_present is known
Decide(state, present) ==
    IF StateIn(state, "present") /\ present THEN "unchanged"
    ELSE IF StateIn(state, "absent") /\ ~present THEN "unchanged"
    ELSE IF StateIn(state, "present") THEN "put"
    ELSE IF StateIn(state, "absent") THEN "delete"
    ELSE "return"

\* variant: a write that was not answered 204 is sent again
AfterWriteRetry(at, status) == IF status = 204 THEN "done" ELSE at

\* lines 179-182 and 186-189: both branches end the run
AfterWrite(at, status) == "done"

TypeOK ==
    /\ pc \in {"L127", "L150", "L178", "L185", "done"}
    /\ UniqueNames(store)
    /\ config_present \in BOOLEAN
    /\ Len(prev) < MaxRuns

Init ==
    /\ \E d \in Policies, s \in States, t \in Tokens : params = MakeParams(d, s, t)
    /\ environ \in EnvTokens
    /\ store \in Stores
    /\ pc = "L127"
    /\ access_token = None
    /\ fetched = NotFetched
    /\ config_present = FALSE
    /\ calls = <<>>
    /\ result = Running
    /\ store0 = store
    /\ prev = <<>>

\* lines 127-150: obtain the token, build the client, send the listing get
Begin ==
    /\ pc = "L127"
    /\ LET token == LoadToken(params, environ) IN
         IF token = Unset
         THEN /\ \E python \in {2, 3} : result' = MissingToken(python)
              /\ pc' = "done"
              /\ UNCHANGED access_token
         ELSE IF params["name"] = None
         THEN /\ result' = FailJson("parameter name is missing", "", "")
              /\ pc' = "done"
              /\ access_token' = token
         ELSE /\ pc' = "L150"
              /\ access_token' = token
              /\ UNCHANGED result
    /\ UNCHANGED <<params, environ, store, fetched, config_present, calls,
                   store0, prev>>

\* lines 150-185: the listing returns; compare; exit or send the one write
GetResponse ==
    /\ pc = "L150"
    /\ \E reply \in GetReplies(store) :
         /\ calls' = Append(calls, Call("get", "", NoData, reply))
         /\ IF ~GetOk(reply.status)
            THEN /\ result' = DescribeFailure(
                                 "failed to obtain existing policy config", "",
                                 reply.json)
                 /\ pc' = "done"
                 /\ UNCHANGED <<fetched, config_present>>
            ELSE IF reply.json.kind # "list"
            THEN \* line 156 iterates None, or line 157 subscripts a dict's key
                 /\ result' = Raised("TypeError")
                 /\ pc' = "done"
                 /\ UNCHANGED <<fetched, config_present>>
            ELSE /\ fetched' = reply.json
                 /\ config_present' = ConfigPresent(reply.json.items, params)
                 /\ LET todo == Decide(params["state"], config_present') IN
                      /\ result' = IF todo = "unchanged" THEN ExitJson(FALSE)
                                   ELSE result
                      /\ pc' = CASE todo = "put" -> "L178"
                                 [] todo = "delete" -> "L185"
                                 [] OTHER -> "done"
    /\ UNCHANGED <<params, environ, store, access_token, store0, prev>>

\* lines 178-182: the put returns
PutResponse ==
    /\ pc = "L178"
    /\ \E reply \in WriteReplies :
         LET data == PutData(params) IN
         /\ calls' = Append(calls, Call("put", params["name"], data, reply))
         /\ store' = RemotePut(store, data, reply.status)
         /\ result' = IF WriteOk(reply.status) THEN ExitJson(TRUE)
                      ELSE DescribeFailure("error creating policy",
                                           params["name"], reply.json)
         /\ pc' = AfterWrite(pc, reply.status)
    /\ UNCHANGED <<params, environ, access_token, fetched, config_present,
                   store0, prev>>

\* lines 185-189: the delete returns
DeleteResponse ==
    /\ pc = "L185"
    /\ \E reply \in WriteReplies :
         /\ calls' = Append(calls, Call("delete", params["name"], NoData,
                                        reply))
         /\ store' = RemoteDelete(store, params["name"], reply.status)
         /\ result' = IF WriteOk(reply.status) THEN ExitJson(TRUE)
                      ELSE DescribeFailure("error deleting policy",
                                           params["name"], reply.json)
         /\ pc' = AfterWrite(pc, reply.status)
    /\ UNCHANGED <<params, environ, access_token, fetched, config_present,
                   store0, prev>>

\* the module is invoked again with the same arguments; start_time is the
\* only argument whose default (line 199) changes between invocations
Rerun ==
    /\ pc = "done"
    /\ Len(prev) < MaxRuns - 1
    /\ prev' = Append(prev, [params |-> params, store0 |-> store0,
                             calls |-> calls, result |-> result])
    /\ \E t \in StartTimes : params' = [params EXCEPT !["start_time"] = t]
    /\ pc' = "L127"
    /\ access_token' = None
    /\ fetched' = NotFetched
    /\ config_present' = FALSE
    /\ calls' = <<>>
    /\ result' = Running
    /\ store0' = store
    /\ UNCHANGED <<environ, store>>

Next == Begin \/ GetResponse \/ PutResponse \/ DeleteResponse \/ Rerun

Spec == Init /\ [][Next]_vars

----------------------------------------------------------------------------
(* Vocabulary of the properties *)

\* the six compared fields, with the parameter each is compared to
Compared == {<<"name", "name">>, <<"duration", "duration">>,
             <<"delivery-packet-count", "delivery_packet_count">>,
             <<"policy-description", "policy_description">>,
             <<"action", "action">>, <<"priority", "priority">>}

\* all seven fields of a policy, with the parameter each is taken from
Carried == Compared \cup {<<"start-time", "start_time">>}

SameOnSix(q, p) == \A kp \in Compared : q[kp[1]] = p[kp[2]]

HasMatch(S, p) == \E q \in S : SameOnSix(q, p)

Writes(cs) == SelectSeq(cs, Mutating)

Puts(cs) == SelectSeq(cs, LAMBDA c : c.method = "put")

Deletes(cs) == SelectSeq(cs, LAMBDA c : c.method = "delete")

\* the listing get was answered 200
ListingOk(cs) == cs # <<>> /\ cs[1].method = "get" /\ cs[1].status = 200

\* the listing get was answered 200 with the list of policies as its body
ListingGiven(cs) == ListingOk(cs) /\ cs[1].json.kind = "list"

ListingRefused(cs) == cs # <<>> /\ cs[1].method = "get" /\ cs[1].status # 200

NoToken == params["access_token"] = None /\ environ = Unset

First == prev[1]

\* the run before the current one was given the same arguments
SameAgain == prev # <<>> /\ prev[Len(prev)].params = params

Before == prev[Len(prev)]

----------------------------------------------------------------------------
(* C1 *)

\* C1: a run issues at most one mutating HTTP call (put or delete) in total,
\* hence never both a put and a delete, whatever the arguments, the policy
\* list and the status codes are.
C1_AtMostOneWrite ==
    /\ Len(Writes(calls)) <= 1
    /\ \A i \in 1..Len(prev) : Len(Writes(prev[i].calls)) <= 1

C1_Witness ==
    /\ pc = "done"
    /\ Len(Writes(calls)) = 1
    /\ calls[Len(calls)].status # 204

----------------------------------------------------------------------------
(* C2 *)

\* the case of C2: same arguments twice, state=present, no match at first,
\* the first run's put applied and answered 204
C2_Case ==
    /\ SameAgain
    /\ pc = "done"
    /\ params["state"] = "present"
    /\ ~HasMatch(Before.store0, params)
    /\ \E i \in 1..Len(Before.calls) :
          Before.calls[i].method = "put" /\ Before.calls[i].status = 204

----------------------------------------------------------------------------
(* C3 *)

\* C3: when state=absent is applied twice with the same arguments, at most
\* one of the two runs ends changed=true, whatever the store held.
C3_AbsentTwice ==
    (SameAgain /\ params["state"] = "absent") =>
        ~(Before.result.changed /\ result.changed)

C3_Witness ==
    /\ SameAgain
    /\ params["state"] = "absent"
    /\ Before.result = ExitJson(TRUE)
    /\ result = ExitJson(FALSE)
    /\ Len(calls) = 1

----------------------------------------------------------------------------
(* C4 *)

\* C4: once the list is fetched, config_present is true exactly when some
\* fetched policy equals the desired one on name, duration,
\* delivery-packet-count, policy-description, action and priority;
\* start-time plays no part.
C4_MatchOnSix ==
    fetched.kind = "list" => (config_present <=> HasMatch(fetched.items, params))

C4_Witness ==
    /\ fetched.kind = "list"
    /\ config_present
    /\ \E q \in fetched.items :
          SameOnSix(q, params) /\ q["start-time"] # params["start_time"]

----------------------------------------------------------------------------
(* C5 *)

\* the fetched list already agrees with the target state
C5_Agrees ==
    /\ fetched.kind = "list"
    /\ \/ params["state"] = "present" /\ HasMatch(fetched.items, params)
       \/ params["state"] = "absent" /\ ~HasMatch(fetched.items, params)

\* C5: when the fetched list agrees with the target state the run issues no
\* put and no delete, leaves the store as it was and ends changed=false.
C5_NoOp ==
    C5_Agrees =>
        /\ pc = "done"
        /\ Writes(calls) = <<>>
        /\ store = store0
        /\ result = ExitJson(FALSE)

C5_Witness ==
    /\ C5_Agrees
    /\ pc = "done"
    /\ params["state"] = "present"
    /\ store # {}

----------------------------------------------------------------------------
(* C6 *)

C6_Case ==
    /\ fetched.kind = "list"
    /\ params["state"] = "present"
    /\ ~HasMatch(fetched.items, params)

\* what C6 says of a run that stands after its put: one put keyed by the
\* desired name with all seven fields, changed=true exactly on 204
C6_Put(c) ==
    /\ Len(calls) = 2
    /\ c.method = "put"
    /\ c.key = params["name"]
    /\ DOMAIN c.data = Keys
    /\ \A kp \in Carried : c.data[kp[1]] = params[kp[2]]
    /\ (result = ExitJson(TRUE)) <=> (c.status = 204)
    /\ c.status # 204 => Failed(result)

\* C6 as claimed: with state=present and no match the run issues exactly one
\* put, keyed by the desired name, whose body carries all seven fields; it
\* ends changed=true exactly when the put is answered 204, and with any other
\* status as a failure that carries the description the controller supplied.
C6_Original ==
    C6_Case =>
        /\ pc \in {"L178", "done"}
        /\ Deletes(calls) = <<>>
        /\ pc = "L178" => Len(calls) = 1 /\ result = Running
        /\ pc = "done" =>
              /\ C6_Put(calls[2])
              /\ calls[2].status # 204 =>
                    /\ calls[2].json.kind = "dict"
                    /\ result = FailJson("error creating policy", params["name"],
                                         calls[2].json.description)

\* C6 amended: as claimed, except that the failure carries the controller's
\* description only when the reply body is a JSON object holding one; with
\* any other body the failure reports the exception raised on reading it.
C6_PutOnce ==
    C6_Case =>
        /\ pc \in {"L178", "done"}
        /\ Deletes(calls) = <<>>
        /\ pc = "L178" => Len(calls) = 1 /\ result = Running
        /\ pc = "done" =>
              /\ C6_Put(calls[2])
              /\ (calls[2].status # 204 /\ calls[2].json.kind = "dict") =>
                    result = FailJson("error creating policy", params["name"],
                                      calls[2].json.description)
              /\ (calls[2].status # 204 /\ calls[2].json.kind # "dict") =>
                    result = Raised("TypeError")

C6_Witness ==
    /\ C6_Case
    /\ pc = "done"
    /\ calls[2].status = 400
    /\ result.msg.description = "Invalid policy"
    /\ params["priority"] = 200

----------------------------------------------------------------------------
(* C7 *)

C7_Case ==
    /\ fetched.kind = "list"
    /\ params["state"] = "absent"
    /\ HasMatch(fetched.items, params)

\* C7: with state=absent and a match the run issues exactly one delete, keyed
\* by the desired name, and no put; it ends changed=true exactly when the
\* delete is answered 204 and otherwise as a failure.
C7_DeleteOnce ==
    C7_Case =>
        /\ pc \in {"L185", "done"}
        /\ Puts(calls) = <<>>
        /\ pc = "L185" => Len(calls) = 1 /\ result = Running
        /\ pc = "done" =>
              /\ Len(calls) = 2
              /\ calls[2].method = "delete"
              /\ calls[2].key = params["name"]
              /\ (result = ExitJson(TRUE)) <=> (calls[2].status = 204)
              /\ calls[2].status # 204 => Failed(result)

C7_Witness ==
    /\ C7_Case
    /\ pc = "done"
    /\ calls[2].status = 200
    /\ Failed(result)

----------------------------------------------------------------------------
(* C8 *)

\* C8: with no access_token parameter and BIGSWITCH_ACCESS_TOKEN unset the
\* run ends as a failure and never issues an HTTP call.
C8_NoTokenNoCall ==
    NoToken =>
        /\ calls = <<>>
        /\ pc \in {"L127", "done"}
        /\ pc = "done" => Failed(result)

C8_Witness ==
    /\ NoToken
    /\ pc = "done"
    /\ Failed(result)
    /\ store # {}

----------------------------------------------------------------------------
(* C9 *)

\* C9: a listing get answered with anything but 200 ends the run as a failure
\* with no put, no delete and the store as it was; and once a run has
\* reported a failure it has no call outstanding and issues none.
C9_FailFast ==
    /\ ListingRefused(calls) =>
          /\ pc = "done"
          /\ Failed(result)
          /\ Len(calls) = 1
          /\ store = store0
    /\ Failed(result) => pc = "done"

C9_Witness ==
    /\ ListingRefused(calls)
    /\ calls[1].status = 202
    /\ Failed(result)
    /\ params["state"] = "present"
    /\ ~HasMatch(store, params)

----------------------------------------------------------------------------
(* C10 *)

\* a policy of the desired name that differs on one of the other five fields
C10_Differs(q) == q["name"] = params["name"] /\ ~SameOnSix(q, params)

C10_Case ==
    /\ params["state"] = "absent"
    /\ pc = "done"
    /\ \E q \in store0 : C10_Differs(q)

====
